---- MODULE Spec2Model ----
(***************************************************************************)
(* Vehicle scheduling backend: the job status state machine                *)
(* (JobStatusService), the overlap detector (VehicleAvailabilityService)   *)
(* and the assignment orchestrator (JobAssignmentService), over the four   *)
(* tables jobs, vehicles, job_assignments and job_status_changes.          *)
(*                                                                         *)
(* Every handler is a sequence of steps, one per awaited database          *)
(* statement.  A handler holds a connection of its own with an open        *)
(* transaction (tx); statements issued through the pool (db.query) and     *)
(* the transaction that updateJobStatus opens on a second connection read  *)
(* and write the committed tables directly.                                *)
(***************************************************************************)
EXTENDS Integers, Sequences, FiniteSets, TLC

\* ------------------------------------------------------------------ bounds
\* Records kept in job_status_changes, all jobs together.
MaxHistory == 4

\* The reference clock of validateInputs (new Date()), as a day number.
Today == 1

Procs == {1, 2}
\* The rows of jobs and vehicles, and the ids a caller may name: the last
\* id of each has no row.
JobRows == 1..2
VehicleRows == 1..2
JobIds == 1..3
VehicleIds == 1..3
\* The vehicles whose is_active flag is switched.
SwitchedVehicles == {2}
\* The job ids reassignJob is called with: a job and the id without row.
ReassignedJobs == {2, 3}
\* The job ids deleteJob is called with: a job and the id without row.
DeletedJobs == {2, 3}

\* Schedules (date, start, end): job 1 has the first one; against it the
\* others are the same window, an overlapping one, one that starts when it
\* ends, one on another day and one on a day already past.
Sched(d, s, e) ==
  [scheduled_date |-> d, scheduled_time_start |-> s, scheduled_time_end |-> e]
FirstSchedule == Sched(Today, 0, 2)
Schedules == {FirstSchedule, Sched(Today, 1, 3), Sched(Today, 2, 3),
              Sched(Today + 1, 0, 2), Sched(Today - 1, 0, 2)}

\* The windows a conflict check may ask about: that of job 1, the one that
\* starts when it ends, and a malformed one (it ends when it starts); and
\* the exclude_job_id the check may carry (0: none).
Windows == {FirstSchedule, Sched(Today, 2, 3), Sched(Today, 2, 2)}
Excluded == {0, 1}
\* The requests (vehicle_id, window, exclude_job_id) of a conflict check:
\* each vehicle row with each of these, and three more: a day already past,
\* a vehicle id without row, and that id with the malformed window.
CheckRequests ==
  {<<v, w, x>> : v \in VehicleRows, w \in Windows, x \in Excluded}
    \cup {<<1, Sched(Today - 1, 0, 2), 0>>, <<3, FirstSchedule, 0>>,
          <<3, Sched(Today, 2, 2), 0>>}

\* The optional notes of an assignment, when the caller gives none.
NoNotes == "null"

NoJob == [current_status |-> "none"]
NoCall == [op |-> "none"]
NoTx == [del |-> {}, ins |-> {}]
NoResult == [ok |-> FALSE, err |-> "none", conflicts |-> {}]
NoPre == [taken |-> FALSE]

\* ------------------------------------------------------ JobStatusService
validStatuses == {"pending", "assigned", "in_progress", "completed", "cancelled"}

\* Status values a caller may send; "bogus" is not a status.
StatusInputs == validStatuses \cup {"bogus"}

ALLOWED_TRANSITIONS_CancelledToAssigned ==
  [pending     |-> <<"assigned", "cancelled">>,
   assigned    |-> <<"in_progress", "cancelled", "pending">>,
   in_progress |-> <<"completed", "cancelled">>,
   completed   |-> <<>>,
   cancelled   |-> <<"pending", "assigned">>]

ALLOWED_TRANSITIONS ==
  [pending     |-> <<"assigned", "cancelled">>,
   assigned    |-> <<"in_progress", "cancelled", "pending">>,
   in_progress |-> <<"completed", "cancelled">>,
   completed   |-> <<>>,
   cancelled   |-> <<"pending">>]

\* Array.prototype.includes
Includes(arr, x) == \E i \in DOMAIN arr : arr[i] = x

\* ------------------------------------------------------------------ state
VARIABLES
  jobs,                \* table jobs: id -> row (status and schedule)
  vehicles,            \* table vehicles: id -> row (is_active)
  job_assignments,     \* table job_assignments: committed rows
  job_status_changes,  \* table job_status_changes: per job, in insertion order
  pc,                  \* position of each caller in its handler
  call,                \* the handler a caller runs and its arguments
  job,                 \* the handler's local `job` (result of Job.getJobById)
  tx,                  \* uncommitted writes of the handler's own transaction
  currentStatus,       \* updateJobStatus' local currentStatus
  result,              \* what the finished handler returned or threw
  pre,                 \* the committed tables when the handler was called
  everAssigned         \* history: the jobs that ever had a committed row

vars == <<jobs, vehicles, job_assignments, job_status_changes,
          pc, call, job, tx, currentStatus, result, pre, everAssigned>>

tables == <<jobs, vehicles, job_assignments, job_status_changes>>

Committed == [taken |-> TRUE, jobs |-> jobs, vehicles |-> vehicles,
              job_assignments |-> job_assignments,
              job_status_changes |-> job_status_changes]

\* A job row as Job.createJob inserts it: status pending (the column default).
NewJob(sch) ==
  [current_status |-> "pending", scheduled_date |-> sch.scheduled_date,
   scheduled_time_start |-> sch.scheduled_time_start,
   scheduled_time_end |-> sch.scheduled_time_end]

Init ==
  /\ \E f \in [JobRows -> Schedules] :
       /\ f[1] = FirstSchedule
       /\ jobs = [j \in JobRows |-> NewJob(f[j])]
  /\ vehicles = [v \in VehicleRows |-> [is_active |-> TRUE]]
  /\ job_assignments = {}
  /\ job_status_changes = [j \in JobIds |-> <<>>]
  /\ pc = [p \in Procs |-> "idle"]
  /\ call = [p \in Procs |-> NoCall]
  /\ job = [p \in Procs |-> NoJob]
  /\ tx = [p \in Procs |-> NoTx]
  /\ currentStatus = [p \in Procs |-> "none"]
  /\ result = [p \in Procs |-> NoResult]
  /\ pre = [p \in Procs |-> NoPre]
  /\ everAssigned = {}


\* ------------------------------------------- VehicleAvailabilityService
validateInputs_Lenient(vehicleId, date, startTime, endTime) == "ok"

\* validateInputs: the error it throws, or "ok".  Ids, dates and times are
\* well-formed here, so only the two ordering checks can fire.
validateInputs(vehicleId, date, startTime, endTime) ==
  IF endTime <= startTime THEN "InvalidWindow"
  ELSE IF date < Today THEN "PastDate"
  ELSE "ok"

validateVehicle(vehicleId) ==
  IF vehicleId \notin DOMAIN vehicles THEN "missing"
  ELSE IF ~vehicles[vehicleId].is_active THEN "inactive"
  ELSE "valid"

TimeOverlap_Closed(startTime, endTime, row) ==
  startTime <= row.scheduled_time_end /\ endTime >= row.scheduled_time_start

TimeOverlap_StartOnly(startTime, endTime, row) ==
  startTime < row.scheduled_time_end

\* The time overlap test of the conflict query.
TimeOverlap(startTime, endTime, row) ==
  startTime < row.scheduled_time_end /\ endTime > row.scheduled_time_start

ActiveStatus_All(status) == TRUE

\* current_status NOT IN ('completed', 'cancelled')
ActiveStatus(status) == status \notin {"completed", "cancelled"}

ConflictQuery_NoExclude(vehicleId, date, startTime, endTime, excludeJobId) ==
  {a.job_id : a \in {r \in job_assignments :
      /\ r.job_id \in DOMAIN jobs
      /\ r.vehicle_id \in DOMAIN vehicles
      /\ r.vehicle_id = vehicleId
      /\ jobs[r.job_id].scheduled_date = date
      /\ jobs[r.job_id].current_status \notin {"completed", "cancelled"}
      /\ startTime < jobs[r.job_id].scheduled_time_end
      /\ endTime > jobs[r.job_id].scheduled_time_start}}

\* The conflict query, read from the committed tables through the pool: the
\* ids of the jobs it returns.  excludeJobId = 0 stands for null.
ConflictQuery(vehicleId, date, startTime, endTime, excludeJobId) ==
  {a.job_id : a \in {r \in job_assignments :
      /\ r.job_id \in DOMAIN jobs
      /\ r.vehicle_id \in DOMAIN vehicles
      /\ r.vehicle_id = vehicleId
      /\ jobs[r.job_id].scheduled_date = date
      /\ ActiveStatus(jobs[r.job_id].current_status)
      /\ TimeOverlap(startTime, endTime, jobs[r.job_id])
      /\ (excludeJobId # 0 => r.job_id # excludeJobId)}}

\* ------------------------------------------------------ handler plumbing
Ok == [ok |-> TRUE, err |-> "none", conflicts |-> {}]

\* The handler ends: its transaction's uncommitted writes are gone (rolled
\* back, or already applied by the commit) and the connection is released.
Finish(p, r) ==
  /\ pc' = [pc EXCEPT ![p] = "done"]
  /\ result' = [result EXCEPT ![p] = r]
  /\ tx' = [tx EXCEPT ![p] = NoTx]

Throw(p, e) == Finish(p, [ok |-> FALSE, err |-> e, conflicts |-> {}])

Goto(p, l) ==
  /\ pc' = [pc EXCEPT ![p] = l]
  /\ UNCHANGED <<result, tx>>

Quiet == \A p \in Procs : pc[p] = "idle"

ActiveOn(j) ==
  Cardinality({q \in Procs : pc[q] \notin {"idle", "done"} /\ call[q].job_id = j})

\* Whether updateJobStatus(j, s) would append a record in the current state.
MayAppend(j, s) ==
  /\ j \in DOMAIN jobs
  /\ s \in validStatuses
  /\ s # jobs[j].current_status
  /\ Includes(ALLOWED_TRANSITIONS[jobs[j].current_status], s)

\* The number of records in job_status_changes for the jobs ids.
RECURSIVE Records(_)
Records(ids) ==
  IF ids = {} THEN 0
  ELSE LET j == CHOOSE x \in ids : TRUE
       IN Len(job_status_changes[j]) + Records(ids \ {j})

\* The handlers that are running.
Running == Cardinality({q \in Procs : pc[q] \notin {"idle", "done"}})

\* Bound of the model: a call starts only while the history stays within
\* MaxHistory records, should every running handler append one, or when it
\* cannot append any.
HistoryRoom(j, s) ==
  \/ Records(JobIds) + Running < MaxHistory
  \/ ActiveOn(j) = 0 /\ ~MayAppend(j, s)

Begin(p, c, l) ==
  /\ pc[p] = "idle"
  /\ HistoryRoom(c.job_id, c.newStatus)
  /\ pc' = [pc EXCEPT ![p] = l]
  /\ call' = [call EXCEPT ![p] = c]
  /\ pre' = [pre EXCEPT ![p] = Committed]
  /\ UNCHANGED <<tables, everAssigned, job, tx, currentStatus, result>>


\* ----------------------------------------- JobStatusService.updateJobStatus
\* POST /api/job-status/update: updateJobStatus(jobId, newStatus, ...).
UpdateStatusCall(p, jobId, newStatus) ==
  Begin(p, [op |-> "update", job_id |-> jobId, vehicle_id |-> 0,
            newStatus |-> newStatus], "u_read")

\* updateJobStatus returns to its caller: the route, or the orchestrator's
\* next step.
StatusReturn(p) ==
  IF call[p].op = "update" THEN Finish(p, Ok)
  ELSE IF call[p].op = "unassign" THEN Goto(p, "n_commit")
  ELSE Goto(p, "a_details")

StatusUnchanged_Never(cur, new) == FALSE

\* STEP 3: currentStatus === newStatus
StatusUnchanged(cur, new) == cur = new

TransitionAllowed_Any(cur, new) == TRUE

TransitionAllowed_FromCompleted(cur, new) ==
  cur = "completed" \/ Includes(ALLOWED_TRANSITIONS[cur], new)

\* STEP 4: allowedTransitions.includes(newStatus)
TransitionAllowed(cur, new) == Includes(ALLOWED_TRANSITIONS[cur], new)

\* RULE 1's query: SELECT COUNT(*) FROM job_assignments WHERE job_id = ?
AssignmentCount(jobId) ==
  Cardinality({r \in job_assignments : r.job_id = jobId})

MissingAssignment(jobId, newStatus) ==
  newStatus = "in_progress" /\ AssignmentCount(jobId) = 0

\* Steps 1-5: validate the status value, read the job row, return at once
\* when the status does not change, check the transition table and RULE 1.
\* The reads are those of updateJobStatus' own transaction: the committed
\* tables, never the uncommitted writes of the orchestrator's transaction.
u_read(p) ==
  /\ pc[p] = "u_read"
  /\ LET jobId == call[p].job_id
         newStatus == call[p].newStatus
     IN IF newStatus \notin validStatuses
          THEN Throw(p, "ValidationError") /\ UNCHANGED currentStatus
        ELSE IF jobId \notin DOMAIN jobs
          THEN Throw(p, "NotFound") /\ UNCHANGED currentStatus
        ELSE IF StatusUnchanged(jobs[jobId].current_status, newStatus)
          THEN StatusReturn(p) /\ UNCHANGED currentStatus
        ELSE IF ~TransitionAllowed(jobs[jobId].current_status, newStatus)
          THEN Throw(p, "InvalidTransition") /\ UNCHANGED currentStatus
        ELSE IF MissingAssignment(jobId, newStatus)
          THEN Throw(p, "MissingAssignment") /\ UNCHANGED currentStatus
        ELSE /\ currentStatus' =
                  [currentStatus EXCEPT ![p] = jobs[jobId].current_status]
             /\ Goto(p, "u_write")
  /\ UNCHANGED <<tables, everAssigned, call, job, pre>>

InsertStatusChange_Twice(history, oldStatus, newStatus) ==
  history \o << [old_status |-> oldStatus, new_status |-> newStatus],
                [old_status |-> oldStatus, new_status |-> newStatus] >>

InsertStatusChange_Replacing(history, oldStatus, newStatus) ==
  << [old_status |-> oldStatus, new_status |-> newStatus] >>

\* STEP 7: INSERT INTO job_status_changes (job_id, old_status, new_status,
\* ...): the job's records after it.
InsertStatusChange(history, oldStatus, newStatus) ==
  Append(history, [old_status |-> oldStatus, new_status |-> newStatus])

u_write_NoRollback(p) ==
  /\ pc[p] = "u_write"
  /\ LET jobId == call[p].job_id
         newStatus == call[p].newStatus
         updated == IF jobId \in DOMAIN jobs
                      THEN [jobs EXCEPT ![jobId].current_status = newStatus]
                      ELSE jobs
     IN \/ /\ jobs' = updated
           /\ job_status_changes' =
                [job_status_changes EXCEPT ![jobId] =
                   InsertStatusChange(@, currentStatus[p], newStatus)]
           /\ StatusReturn(p)
        \/ /\ jobs' = updated
           /\ Throw(p, "StorageError")
           /\ UNCHANGED job_status_changes
  /\ UNCHANGED <<vehicles, job_assignments, everAssigned, call, job,
                 currentStatus, pre>>

\* Steps 6-8: UPDATE jobs, INSERT INTO job_status_changes, commit; or a
\* statement fails and the transaction of updateJobStatus rolls back.
u_write(p) ==
  /\ pc[p] = "u_write"
  /\ LET jobId == call[p].job_id
         newStatus == call[p].newStatus
     IN \/ /\ jobs' = IF jobId \in DOMAIN jobs
                        THEN [jobs EXCEPT ![jobId].current_status = newStatus]
                        ELSE jobs
           /\ job_status_changes' =
                [job_status_changes EXCEPT ![jobId] =
                   InsertStatusChange(@, currentStatus[p], newStatus)]
           /\ StatusReturn(p)
        \/ /\ Throw(p, "StorageError")
           /\ UNCHANGED <<jobs, job_status_changes>>
  /\ UNCHANGED <<vehicles, job_assignments, everAssigned, call, job,
                 currentStatus, pre>>

\* The caller has its answer; its locals are gone.
Return(p) ==
  /\ pc[p] = "done"
  /\ pc' = [pc EXCEPT ![p] = "idle"]
  /\ call' = [call EXCEPT ![p] = NoCall]
  /\ job' = [job EXCEPT ![p] = NoJob]
  /\ currentStatus' = [currentStatus EXCEPT ![p] = "none"]
  /\ result' = [result EXCEPT ![p] = NoResult]
  /\ pre' = [pre EXCEPT ![p] = NoPre]
  /\ UNCHANGED <<tables, everAssigned, tx>>


\* ------------------------------ JobAssignmentService.assignJobToVehicle
\* POST /api/job-assignments/assign: getConnection, beginTransaction.
AssignCall(p, jobId, vehicleId) ==
  Begin(p, [op |-> "assign", job_id |-> jobId, vehicle_id |-> vehicleId,
            newStatus |-> "assigned", notes |-> NoNotes], "a_getJob")

Assignable_Any(status) == TRUE

\* ['pending', 'assigned'].includes(job.current_status)
Assignable(status) == status \in {"pending", "assigned"}

\* STEP 1: Job.getJobById through the pool, and the status check.
a_getJob(p) ==
  /\ pc[p] = "a_getJob"
  /\ LET jobId == call[p].job_id
     IN IF jobId \notin DOMAIN jobs
          THEN Throw(p, "NotFound") /\ UNCHANGED job
        ELSE IF ~Assignable(jobs[jobId].current_status)
          THEN Throw(p, "AssignmentNotAllowed") /\ UNCHANGED job
        ELSE job' = [job EXCEPT ![p] = jobs[jobId]] /\ Goto(p, "a_getVehicle")
  /\ UNCHANGED <<tables, everAssigned, call, currentStatus, pre>>

\* STEP 2: Vehicle.getVehicleById through the pool, and the is_active check.
a_getVehicle(p) ==
  /\ pc[p] = "a_getVehicle"
  /\ LET vehicleId == call[p].vehicle_id
     IN IF vehicleId \notin DOMAIN vehicles THEN Throw(p, "NotFound")
        ELSE IF ~vehicles[vehicleId].is_active THEN Throw(p, "VehicleInactive")
        ELSE Goto(p, "c_vehicle")
  /\ UNCHANGED <<tables, everAssigned, call, job, currentStatus, pre>>

\* STEP 3, checkVehicleAvailability steps 1-2: validateInputs throws, and a
\* vehicle that validateVehicle rejects makes the answer "not available"
\* with no conflicts, which the orchestrator reports as a time conflict.
c_vehicle(p) ==
  /\ pc[p] = "c_vehicle"
  /\ LET v == validateInputs(call[p].vehicle_id, job[p].scheduled_date,
                             job[p].scheduled_time_start,
                             job[p].scheduled_time_end)
     IN IF v # "ok" THEN Throw(p, v)
        ELSE IF validateVehicle(call[p].vehicle_id) # "valid"
          THEN Finish(p, [ok |-> FALSE, err |-> "TimeConflict", conflicts |-> {}])
        ELSE Goto(p, "c_conflicts")
  /\ UNCHANGED <<tables, everAssigned, call, job, currentStatus, pre>>

\* STEP 3, checkVehicleAvailability steps 3-7: the conflict query, with the
\* job itself excluded; any row returned aborts the assignment.
c_conflicts(p) ==
  /\ pc[p] = "c_conflicts"
  /\ LET conflicts == ConflictQuery(call[p].vehicle_id, job[p].scheduled_date,
                                    job[p].scheduled_time_start,
                                    job[p].scheduled_time_end, call[p].job_id)
     IN IF conflicts # {}
          THEN Finish(p, [ok |-> FALSE, err |-> "TimeConflict",
                          conflicts |-> conflicts])
        ELSE Goto(p, "a_delete")
  /\ UNCHANGED <<tables, everAssigned, call, job, currentStatus, pre>>

AssignmentRows_All(jobId) == job_assignments

\* Whether rows holds a row of job j on vehicle v (the key of
\* unique_vehicle_job).
Binds(rows, j, v) == \E r \in rows : r.job_id = j /\ r.vehicle_id = v

\* SELECT ... FROM job_assignments ja ... WHERE ja.job_id = ?
AssignmentRows(jobId) == {r \in job_assignments : r.job_id = jobId}

DeletedRows_None(jobId) == {}

\* DELETE FROM job_assignments WHERE job_id = ?: the rows it removes.
DeletedRows(jobId) == {r \in job_assignments : r.job_id = jobId}

\* A row of the job is written, and not yet committed, by the transaction
\* of another handler: a DELETE that meets it waits for that transaction to
\* end.
RowLocked(p, jobId) ==
  \E q \in Procs \ {p} : \E r \in tx[q].del \cup tx[q].ins : r.job_id = jobId

\* STEP 4, first statement: the DELETE, inside the handler's transaction.
a_delete(p) ==
  /\ pc[p] = "a_delete"
  /\ \/ /\ ~RowLocked(p, call[p].job_id)
        /\ tx' = [tx EXCEPT ![p].del = DeletedRows(call[p].job_id)]
        /\ pc' = [pc EXCEPT ![p] = "a_insert"]
        /\ UNCHANGED result
     \/ Throw(p, "StorageError")
  /\ UNCHANGED <<tables, everAssigned, call, job, currentStatus, pre>>

\* STEP 4, second statement: the INSERT, inside the handler's transaction.
\* unique_vehicle_job rejects a second row for the same job and vehicle.
a_insert(p) ==
  /\ pc[p] = "a_insert"
  /\ LET row == [job_id |-> call[p].job_id, vehicle_id |-> call[p].vehicle_id,
                 notes |-> call[p].notes]
     IN \/ /\ ~Binds(job_assignments \ tx[p].del, row.job_id, row.vehicle_id)
           /\ tx' = [tx EXCEPT ![p].ins = {row}]
           /\ pc' = [pc EXCEPT ![p] = "u_read"]
           /\ UNCHANGED result
        \/ Throw(p, "StorageError")
  /\ UNCHANGED <<tables, everAssigned, call, job, currentStatus, pre>>

\* STEP 6: getAssignmentDetails(insertId) through the pool, on another
\* connection than the one whose transaction inserted the row.  Whether
\* that uncommitted row is returned depends on the store's isolation, so
\* both outcomes are possible; an empty result throws.
a_details(p) ==
  /\ pc[p] = "a_details"
  /\ \/ Goto(p, "a_commit")
     \/ Throw(p, "AssignmentNotFound")
  /\ UNCHANGED <<tables, everAssigned, call, job, currentStatus, pre>>

\* connection.commit(): the DELETE and the INSERT become visible, or the
\* commit fails and the catch block rolls them back.
a_commit(p) ==
  /\ pc[p] = "a_commit"
  /\ \/ /\ job_assignments' = (job_assignments \ tx[p].del) \cup tx[p].ins
        /\ everAssigned' = everAssigned \cup {r.job_id : r \in tx[p].ins}
        /\ Finish(p, Ok)
     \/ /\ Throw(p, "StorageError")
        /\ UNCHANGED <<job_assignments, everAssigned>>
  /\ UNCHANGED <<jobs, vehicles, job_status_changes, call, job, currentStatus, pre>>

\* ------------------------------------------- POST /check-conflict
\* The advisory check of a requested window: checkVehicleAvailability with
\* the body's vehicle, date, times and exclude_job_id (0 when absent).
CheckConflictCall(p, vehicleId, sch, excludeJobId) ==
  /\ pc[p] = "idle"
  /\ pc' = [pc EXCEPT ![p] = "k_vehicle"]
  /\ call' = [call EXCEPT ![p] =
                [op |-> "check", job_id |-> excludeJobId, vehicle_id |-> vehicleId,
                 newStatus |-> "none", window |-> sch]]
  /\ pre' = [pre EXCEPT ![p] = Committed]
  /\ UNCHANGED <<tables, everAssigned, job, tx, currentStatus, result>>

\* What the route answers: available (isAvailable) and the conflicts.
Availability(isAvailable, conflicts) ==
  [ok |-> isAvailable, err |-> "none", conflicts |-> conflicts]

\* checkVehicleAvailability steps 1-2: validateInputs throws; a vehicle that
\* validateVehicle rejects is reported unavailable with no conflicts.
k_vehicle(p) ==
  /\ pc[p] = "k_vehicle"
  /\ LET w == call[p].window
         v == validateInputs(call[p].vehicle_id, w.scheduled_date,
                             w.scheduled_time_start, w.scheduled_time_end)
     IN IF v # "ok" THEN Throw(p, v)
        ELSE IF validateVehicle(call[p].vehicle_id) # "valid"
          THEN Finish(p, Availability(FALSE, {}))
        ELSE Goto(p, "k_conflicts")
  /\ UNCHANGED <<tables, everAssigned, call, job, currentStatus, pre>>

k_conflicts_Deleting(p) ==
  /\ pc[p] = "k_conflicts"
  /\ LET w == call[p].window
         conflicts == ConflictQuery(call[p].vehicle_id, w.scheduled_date,
                                    w.scheduled_time_start,
                                    w.scheduled_time_end, call[p].job_id)
     IN /\ Finish(p, Availability(conflicts = {}, conflicts))
        /\ job_assignments' = {r \in job_assignments : r.job_id \notin conflicts}
  /\ UNCHANGED <<jobs, vehicles, job_status_changes, everAssigned, call, job,
                 currentStatus, pre>>

\* checkVehicleAvailability steps 3-7: the conflict query and the answer.
k_conflicts(p) ==
  /\ pc[p] = "k_conflicts"
  /\ LET w == call[p].window
         conflicts == ConflictQuery(call[p].vehicle_id, w.scheduled_date,
                                    w.scheduled_time_start,
                                    w.scheduled_time_end, call[p].job_id)
     IN Finish(p, Availability(conflicts = {}, conflicts))
  /\ UNCHANGED <<tables, everAssigned, call, job, currentStatus, pre>>

\* ---------------------------- findAvailableVehicles, getVehicleSchedule
\* A query handler's call and its answer, the rows it returns.
QueryCall(p, c, l) ==
  /\ pc[p] = "idle"
  /\ pc' = [pc EXCEPT ![p] = l]
  /\ call' = [call EXCEPT ![p] = c]
  /\ pre' = [pre EXCEPT ![p] = Committed]
  /\ UNCHANGED <<tables, everAssigned, job, tx, currentStatus, result>>

Rows(ids) == [ok |-> TRUE, err |-> "none", conflicts |-> {}, rows |-> ids]

FindAvailableCall(p, sch) ==
  QueryCall(p, [op |-> "find", job_id |-> 0, vehicle_id |-> 0,
                newStatus |-> "none", window |-> sch], "f_query")

BusyVehicles_Closed(date, startTime, endTime) ==
  {a.vehicle_id : a \in {r \in job_assignments :
      /\ r.job_id \in DOMAIN jobs
      /\ jobs[r.job_id].scheduled_date = date
      /\ jobs[r.job_id].current_status \notin {"completed", "cancelled"}
      /\ startTime <= jobs[r.job_id].scheduled_time_end
      /\ endTime >= jobs[r.job_id].scheduled_time_start}}

\* The subquery of findAvailableVehicles: the vehicles busy in the window.
BusyVehicles(date, startTime, endTime) ==
  {a.vehicle_id : a \in {r \in job_assignments :
      /\ r.job_id \in DOMAIN jobs
      /\ jobs[r.job_id].scheduled_date = date
      /\ jobs[r.job_id].current_status \notin {"completed", "cancelled"}
      /\ startTime < jobs[r.job_id].scheduled_time_end
      /\ endTime > jobs[r.job_id].scheduled_time_start}}

\* findAvailableVehicles: the active vehicles that are not busy.
f_query(p) ==
  /\ pc[p] = "f_query"
  /\ LET w == call[p].window
     IN Finish(p, Rows({v \in DOMAIN vehicles :
          /\ vehicles[v].is_active
          /\ v \notin BusyVehicles(w.scheduled_date, w.scheduled_time_start,
                                   w.scheduled_time_end)}))
  /\ UNCHANGED <<tables, everAssigned, call, job, currentStatus, pre>>

\* Vehicle.getAvailableVehicles(date, startTime, endTime): the same
\* statement, its subquery without DISTINCT.
GetAvailableCall(p, sch) ==
  QueryCall(p, [op |-> "available", job_id |-> 0, vehicle_id |-> 0,
                newStatus |-> "none", window |-> sch], "g_query")

getAvailableVehicles(date, startTime, endTime) ==
  {v \in DOMAIN vehicles :
     /\ vehicles[v].is_active
     /\ v \notin {a.vehicle_id : a \in {r \in job_assignments :
          /\ r.job_id \in DOMAIN jobs
          /\ jobs[r.job_id].scheduled_date = date
          /\ jobs[r.job_id].current_status \notin {"completed", "cancelled"}
          /\ startTime < jobs[r.job_id].scheduled_time_end
          /\ endTime > jobs[r.job_id].scheduled_time_start}}}

g_query(p) ==
  /\ pc[p] = "g_query"
  /\ LET w == call[p].window
     IN Finish(p, Rows(getAvailableVehicles(w.scheduled_date,
                                            w.scheduled_time_start,
                                            w.scheduled_time_end)))
  /\ UNCHANGED <<tables, everAssigned, call, job, currentStatus, pre>>

ScheduleCall(p, vehicleId, date) ==
  QueryCall(p, [op |-> "schedule", job_id |-> 0, vehicle_id |-> vehicleId,
                newStatus |-> "none", window |-> Sched(date, 0, 0)], "s_query")

\* Job.getJobsByVehicle(vehicleId, date, ['completed', 'cancelled']).
getJobsByVehicle(vehicleId, date) ==
  {a.job_id : a \in {r \in job_assignments :
      /\ r.job_id \in DOMAIN jobs
      /\ r.vehicle_id \in DOMAIN vehicles
      /\ r.vehicle_id = vehicleId
      /\ jobs[r.job_id].scheduled_date = date
      /\ jobs[r.job_id].current_status \notin {"completed", "cancelled"}}}

\* The day calculateTimeGaps divides, '00:00:00' to '23:59:59', on the
\* scale of the model's times: every job window lies within it.
DayStart == 0
DayEnd == 4

\* The orders calculateTimeGaps may work in: the rows sorted by
\* scheduled_time_start; rows with the same start keep the order the store
\* returned them in, which is any.
SortedByStart(ids) ==
  {s \in [1..Cardinality(ids) -> ids] :
     /\ \A i, k \in DOMAIN s : i # k => s[i] # s[k]
     /\ \A i, k \in DOMAIN s :
          i < k => jobs[s[i]].scheduled_time_start
                     <= jobs[s[k]].scheduled_time_start}

Gap(start, end) == [start |-> start, end |-> end]

\* Gaps between jobs: from job i on, one gap wherever a job ends before the
\* next one in the order starts.
RECURSIVE GapsBetween(_, _)
GapsBetween(sortedJobs, i) ==
  IF i >= Len(sortedJobs) THEN <<>>
  ELSE LET currentEnd == jobs[sortedJobs[i]].scheduled_time_end
           nextStart == jobs[sortedJobs[i + 1]].scheduled_time_start
       IN (IF currentEnd < nextStart THEN <<Gap(currentEnd, nextStart)>>
           ELSE <<>>) \o GapsBetween(sortedJobs, i + 1)

\* calculateTimeGaps on the sorted rows: the whole day without jobs; else
\* the gap before the first job, the gaps between neighbours, and the gap
\* after the last job of the order.
calculateTimeGaps(sortedJobs) ==
  IF Len(sortedJobs) = 0 THEN <<Gap(DayStart, DayEnd)>>
  ELSE LET first == jobs[sortedJobs[1]]
           lastJob == jobs[sortedJobs[Len(sortedJobs)]]
       IN (IF first.scheduled_time_start > DayStart
             THEN <<Gap(DayStart, first.scheduled_time_start)>> ELSE <<>>)
          \o GapsBetween(sortedJobs, 1)
          \o (IF lastJob.scheduled_time_end < DayEnd
                THEN <<Gap(lastJob.scheduled_time_end, DayEnd)>> ELSE <<>>)

\* { occupiedSlots: jobs, availableGaps: gaps, ... }
VehicleSchedule(ids, gaps) ==
  [ok |-> TRUE, err |-> "none", conflicts |-> {}, rows |-> ids, gaps |-> gaps]

\* getVehicleSchedule: the occupied slots of the vehicle on the date and
\* the gaps between them.
s_query(p) ==
  /\ pc[p] = "s_query"
  /\ LET ids == getJobsByVehicle(call[p].vehicle_id,
                                 call[p].window.scheduled_date)
     IN \E sortedJobs \in SortedByStart(ids) :
          Finish(p, VehicleSchedule(ids, calculateTimeGaps(sortedJobs)))
  /\ UNCHANGED <<tables, everAssigned, call, job, currentStatus, pre>>

\* ------------------------------ JobStatusService.getAllowedTransitions
AllowedTransitionsCall(p, jobId) ==
  QueryCall(p, [op |-> "allowed", job_id |-> jobId, vehicle_id |-> 0,
                newStatus |-> "none"], "t_query")

AllowedStatuses_Every(status) ==
  <<"pending", "assigned", "in_progress", "completed", "cancelled">>

\* this.ALLOWED_TRANSITIONS[currentStatus] || []
AllowedStatuses(status) ==
  IF status \in DOMAIN ALLOWED_TRANSITIONS THEN ALLOWED_TRANSITIONS[status]
  ELSE <<>>

\* Job.getJobById through the pool, then the table entry of the job's
\* status, one element per allowed status.
t_query(p) ==
  /\ pc[p] = "t_query"
  /\ IF call[p].job_id \notin DOMAIN jobs THEN Throw(p, "NotFound")
     ELSE Finish(p, Rows(AllowedStatuses(jobs[call[p].job_id].current_status)))
  /\ UNCHANGED <<tables, everAssigned, call, job, currentStatus, pre>>

\* -------------------------------- JobStatusService.validateJobWorkflow
ValidateWorkflowCall(p, jobId, targetStatus) ==
  QueryCall(p, [op |-> "validate", job_id |-> jobId, vehicle_id |-> 0,
                newStatus |-> targetStatus], "w_query")

\* canTransitionTo(status, newStatus): the same status is allowed.
canTransitionTo(status, newStatus) ==
  IF status = newStatus THEN TRUE
  ELSE IF status \in DOMAIN ALLOWED_TRANSITIONS
    THEN Includes(ALLOWED_TRANSITIONS[status], newStatus)
  ELSE FALSE

\* The errors validateJobWorkflow collects for a job row: the transition
\* check, then the switch on the target status.  vehicleId is the
\* vehicle_id of the joined row, 0 for NULL.
WorkflowErrors(status, vehicleId, targetStatus) ==
  (IF canTransitionTo(status, targetStatus) THEN {}
   ELSE {"Invalid transition"})
  \cup
  (CASE targetStatus = "in_progress" ->
          (IF vehicleId = 0 THEN {"Job must have a vehicle assigned"} ELSE {})
          \cup (IF status # "assigned"
                  THEN {"Job must be in assigned status"} ELSE {})
     [] targetStatus = "completed" ->
          (IF status # "in_progress"
             THEN {"Job must be in in_progress status"} ELSE {})
     [] targetStatus = "cancelled" ->
          (IF status = "completed"
             THEN {"Cannot cancel a completed job"} ELSE {})
     [] targetStatus = "pending" ->
          (IF status \notin {"assigned", "cancelled"}
             THEN {"Can only return to pending from assigned or cancelled"}
             ELSE {})
     [] OTHER -> {})

\* ja.vehicle_id of Job.getJobById's LEFT JOIN: NULL (0) without a row,
\* else the vehicle of the first row the store returns.
JoinedVehicles(assignments, jobId) ==
  IF \A r \in assignments : r.job_id # jobId THEN {0}
  ELSE {r.vehicle_id : r \in {a \in assignments : a.job_id = jobId}}

\* { valid: errors.length === 0, errors, ... }
Validation(errors) ==
  [ok |-> TRUE, err |-> "none", conflicts |-> {},
   valid |-> errors = {}, errors |-> errors]

\* Job.getJobById through the pool, then the checks; a job that is not
\* found is the answer valid: false.
w_query(p) ==
  /\ pc[p] = "w_query"
  /\ LET jobId == call[p].job_id
     IN IF jobId \notin DOMAIN jobs
          THEN Finish(p, Validation({"Job not found"}))
        ELSE \E v \in JoinedVehicles(job_assignments, jobId) :
               Finish(p, Validation(WorkflowErrors(jobs[jobId].current_status,
                                                   v, call[p].newStatus)))
  /\ UNCHANGED <<tables, everAssigned, call, job, currentStatus, pre>>

\* ------------------------------------- JobAssignmentService.unassignJob
UnassignCall(p, jobId) ==
  Begin(p, [op |-> "unassign", job_id |-> jobId, vehicle_id |-> 0,
            newStatus |-> "pending"], "n_getJob")

n_getJob(p) ==
  /\ pc[p] = "n_getJob"
  /\ LET jobId == call[p].job_id
     IN IF jobId \notin DOMAIN jobs
          THEN Throw(p, "NotFound") /\ UNCHANGED job
        ELSE job' = [job EXCEPT ![p] = jobs[jobId]] /\ Goto(p, "n_check")
  /\ UNCHANGED <<tables, everAssigned, call, currentStatus, pre>>

\* The assignment lookup on the handler's connection, then the two status
\* checks on the job read before.
n_check(p) ==
  /\ pc[p] = "n_check"
  /\ IF AssignmentRows(call[p].job_id) = {} THEN Throw(p, "NotAssigned")
     ELSE IF job[p].current_status \in {"in_progress", "completed"}
       THEN Throw(p, "CannotUnassign")
     ELSE Goto(p, "n_delete")
  /\ UNCHANGED <<tables, everAssigned, call, job, currentStatus, pre>>

n_delete(p) ==
  /\ pc[p] = "n_delete"
  /\ \/ /\ ~RowLocked(p, call[p].job_id)
        /\ tx' = [tx EXCEPT ![p].del = DeletedRows(call[p].job_id)]
        /\ pc' = [pc EXCEPT ![p] = "u_read"]
        /\ UNCHANGED result
     \/ Throw(p, "StorageError")
  /\ UNCHANGED <<tables, everAssigned, call, job, currentStatus, pre>>

n_commit(p) ==
  /\ pc[p] = "n_commit"
  /\ \/ /\ job_assignments' = job_assignments \ tx[p].del
        /\ Finish(p, Ok)
     \/ /\ Throw(p, "StorageError")
        /\ UNCHANGED job_assignments
  /\ UNCHANGED <<jobs, vehicles, job_status_changes, everAssigned, call, job,
                 currentStatus, pre>>

\* ------------------------------------- JobAssignmentService.reassignJob
ReassignCall(p, jobId, newVehicleId) ==
  Begin(p, [op |-> "reassign", job_id |-> jobId, vehicle_id |-> newVehicleId,
            newStatus |-> "assigned", notes |-> NoNotes], "r_getJob")

Reassignable_OnlyAssigned(status) == status = "assigned"

\* ['pending', 'assigned'].includes(job.current_status)
Reassignable(status) == status \in {"pending", "assigned"}

\* notes || `Reassigned from ${job.vehicle_name}`
ReassignNotes(notes) == IF notes = NoNotes THEN "Reassigned from" ELSE notes

\* Its own read of the job and status check; then it is a call of
\* assignJobToVehicle with the same job, the new vehicle and the notes
\* filled in, whose result or error it passes on unchanged.
r_getJob(p) ==
  /\ pc[p] = "r_getJob"
  /\ LET jobId == call[p].job_id
     IN IF jobId \notin DOMAIN jobs
          THEN Throw(p, "NotFound") /\ UNCHANGED call
        ELSE IF ~Reassignable(jobs[jobId].current_status)
          THEN Throw(p, "AssignmentNotAllowed") /\ UNCHANGED call
        ELSE /\ call' = [call EXCEPT ![p].op = "assign",
                                     ![p].notes = ReassignNotes(@)]
             /\ Goto(p, "a_getJob")
  /\ UNCHANGED <<tables, everAssigned, job, currentStatus, pre>>

\* ---------------------------------------------------------- Job.deleteJob
DeleteJobCall(p, id) ==
  Begin(p, [op |-> "delete", job_id |-> id, vehicle_id |-> 0,
            newStatus |-> "none"], "d_count")

DeleteGuard_Never(id) == FALSE

\* checkResult[0].assignment_count > 0
DeleteGuard(id) == AssignmentCount(id) > 0

\* SELECT COUNT(*) FROM job_assignments WHERE job_id = ?, through the pool:
\* a job that holds a row now is not deleted.
d_count(p) ==
  /\ pc[p] = "d_count"
  /\ IF DeleteGuard(call[p].job_id) THEN Throw(p, "JobAssigned")
     ELSE Goto(p, "d_delete")
  /\ UNCHANGED <<tables, everAssigned, call, job, currentStatus, pre>>

\* What the store keeps of a deleted job's status change records: all of
\* them (the records are never updated or deleted).
RecordsOfDeletedJob(history) == history

\* DELETE FROM jobs WHERE id = ?, through the pool: no row affected is the
\* not-found error; otherwise the row is gone, or the statement fails.
d_delete(p) ==
  /\ pc[p] = "d_delete"
  /\ LET id == call[p].job_id
     IN IF id \notin DOMAIN jobs
          THEN Throw(p, "NotFound") /\ UNCHANGED <<jobs, job_status_changes>>
        ELSE \/ /\ jobs' = [j \in DOMAIN jobs \ {id} |-> jobs[j]]
                /\ job_status_changes' =
                     [job_status_changes EXCEPT ![id] = RecordsOfDeletedJob(@)]
                /\ Finish(p, Ok)
             \/ /\ Throw(p, "StorageError")
                /\ UNCHANGED <<jobs, job_status_changes>>
  /\ UNCHANGED <<vehicles, job_assignments, everAssigned, call, job,
                 currentStatus, pre>>

\* ---------------------------------------------------------- Job.updateJob
\* updateJob(id, updates) with the three schedule fields as updates.
UpdateJobCall(p, id, sch) ==
  QueryCall(p, [op |-> "updateJob", job_id |-> id, vehicle_id |-> 0,
                newStatus |-> "none", window |-> sch], "j_update")

\* UPDATE jobs SET scheduled_date = ?, scheduled_time_start = ?,
\* scheduled_time_end = ? WHERE id = ?, through the pool: no row affected
\* is the not-found error; otherwise the row has the new schedule, or the
\* statement fails.  No other table is read before the write.
j_update(p) ==
  /\ pc[p] = "j_update"
  /\ LET id == call[p].job_id
         w == call[p].window
     IN IF id \notin DOMAIN jobs
          THEN Throw(p, "NotFound") /\ UNCHANGED jobs
        ELSE \/ /\ jobs' = [jobs EXCEPT
                              ![id].scheduled_date = w.scheduled_date,
                              ![id].scheduled_time_start = w.scheduled_time_start,
                              ![id].scheduled_time_end = w.scheduled_time_end]
                /\ Finish(p, Ok)
             \/ Throw(p, "StorageError") /\ UNCHANGED jobs
  /\ UNCHANGED <<vehicles, job_assignments, job_status_changes, everAssigned,
                 call, job, currentStatus, pre>>

\* ------------------------------------------------ PUT /jobs/:id/schedule
\* The route's request: the job id and the body's schedule; dateGiven is
\* whether scheduled_date is present and matches YYYY-MM-DD.
PutScheduleCall(p, id, sch, dateGiven) ==
  QueryCall(p, [op |-> "putSchedule", job_id |-> id, vehicle_id |-> 0,
                newStatus |-> "none", window |-> sch, dateGiven |-> dateGiven],
            "p_check")

\* The route answers 400 for a missing or malformed date.  Its next
\* statement calls checkVehicleConflict, a name that no file defines or
\* imports: the call throws a ReferenceError, the catch block answers 500
\* and the UPDATE that follows is never reached.
p_check(p) ==
  /\ pc[p] = "p_check"
  /\ IF ~call[p].dateGiven THEN Throw(p, "ValidationError")
     ELSE Throw(p, "ServerError")
  /\ UNCHANGED <<tables, everAssigned, call, job, currentStatus, pre>>

\* ------------------------------------------- Vehicle.updateVehicleStatus
updateVehicleStatus(id, isActive) ==
  /\ id \in DOMAIN vehicles
  /\ vehicles[id].is_active # isActive
  /\ vehicles' = [vehicles EXCEPT ![id].is_active = isActive]
  /\ UNCHANGED <<jobs, job_assignments, job_status_changes, everAssigned,
                 pc, call, job, tx, currentStatus, result, pre>>

\* ---------------------------------------------------------- specifications
Calls(p) ==
  \/ \E j \in JobIds, v \in VehicleIds : AssignCall(p, j, v)
  \/ \E j \in ReassignedJobs, v \in VehicleIds : ReassignCall(p, j, v)
  \/ \E j \in JobIds : UnassignCall(p, j)
  \/ \E j \in JobIds, s \in StatusInputs : UpdateStatusCall(p, j, s)
  \/ \E c \in CheckRequests : CheckConflictCall(p, c[1], c[2], c[3])
  \/ \E j \in DeletedJobs : DeleteJobCall(p, j)
  \/ FindAvailableCall(p, FirstSchedule)
  \/ \E j \in {1, 3} : AllowedTransitionsCall(p, j)
  \/ ScheduleCall(p, 1, Today)

Steps(p) ==
  \/ u_read(p) \/ u_write(p)
  \/ a_getJob(p) \/ a_getVehicle(p) \/ c_vehicle(p) \/ c_conflicts(p)
  \/ a_delete(p) \/ a_insert(p) \/ a_details(p) \/ a_commit(p)
  \/ n_getJob(p) \/ n_check(p) \/ n_delete(p) \/ n_commit(p)
  \/ r_getJob(p)
  \/ k_vehicle(p) \/ k_conflicts(p)
  \/ d_count(p) \/ d_delete(p)
  \/ f_query(p) \/ s_query(p) \/ t_query(p)
  \/ Return(p)

\* One request at a time: a handler runs to its end before the next starts.
Next ==
  \/ Quiet /\ Calls(1)
  \/ Steps(1)
  \/ Quiet /\ \E v \in SwitchedVehicles, b \in BOOLEAN : updateVehicleStatus(v, b)

Spec == Init /\ [][Next]_vars


\* Two callers of assignJobToVehicle at once, for different jobs, their
\* steps interleaved in any order.
AssignSteps(p) ==
  \/ a_getJob(p) \/ a_getVehicle(p) \/ c_vehicle(p) \/ c_conflicts(p)
  \/ a_delete(p) \/ a_insert(p)
  \/ u_read(p) \/ u_write(p)
  \/ a_details(p) \/ a_commit(p)
  \/ Return(p)

NextAssignRace ==
  \E p \in Procs :
    \/ \E j \in JobRows, v \in VehicleRows :
         /\ \A q \in Procs : call[q].op # "none" => call[q].job_id # j
         /\ AssignCall(p, j, v)
    \/ AssignSteps(p)

SpecAssignRace == Init /\ [][NextAssignRace]_vars

\* The status service and the orchestrators that change the assignment it
\* looks at, one request at a time.
WorkflowSteps(p) ==
  \/ AssignSteps(p)
  \/ n_getJob(p) \/ n_check(p) \/ n_delete(p) \/ n_commit(p)
  \/ w_query(p)

NextWorkflow ==
  \/ /\ Quiet
     /\ \/ \E j \in JobIds, v \in VehicleRows : AssignCall(1, j, v)
        \/ \E j \in JobIds : UnassignCall(1, j)
        \/ \E j \in JobIds, s \in StatusInputs : UpdateStatusCall(1, j, s)
        \/ \E j \in JobIds, s \in StatusInputs : ValidateWorkflowCall(1, j, s)
  \/ WorkflowSteps(1)

SpecWorkflow == Init /\ [][NextWorkflow]_vars

\* The availability queries next to the calls that change what they read:
\* assignments, statuses and the vehicles' is_active flag, one request at a
\* time.  The windows asked about are those a job may be scheduled in,
\* from today on.
ValidWindows == Schedules \ {Sched(Today - 1, 0, 2)}

AvailabilitySteps(p) ==
  \/ AssignSteps(p)
  \/ k_vehicle(p) \/ k_conflicts(p)
  \/ f_query(p) \/ g_query(p)

NextAvailability ==
  \/ /\ Quiet
     /\ \/ \E j \in JobRows, v \in VehicleRows : AssignCall(1, j, v)
        \/ \E j \in JobRows, s \in {"in_progress", "completed", "cancelled"} :
             UpdateStatusCall(1, j, s)
        \/ \E v \in VehicleIds, w \in ValidWindows : CheckConflictCall(1, v, w, 0)
        \/ \E w \in ValidWindows : FindAvailableCall(1, w)
        \/ \E w \in ValidWindows : GetAvailableCall(1, w)
        \/ \E v \in SwitchedVehicles, b \in BOOLEAN : updateVehicleStatus(v, b)
  \/ AvailabilitySteps(1)

SpecAvailability == Init /\ [][NextAvailability]_vars

\* getVehicleSchedule for vehicle 1 next to the calls that fill its day,
\* one request at a time, for jobs created with windows of which one may
\* lie within the other or start with it.
GapSchedules ==
  [JobRows -> {Sched(Today, 0, 3), Sched(Today, 0, 2), Sched(Today, 1, 3),
               Sched(Today, 1, 2), Sched(Today, 0, 1)}]

InitGaps ==
  /\ \E f \in GapSchedules : jobs = [j \in JobRows |-> NewJob(f[j])]
  /\ vehicles = [v \in VehicleRows |-> [is_active |-> TRUE]]
  /\ job_assignments = {}
  /\ job_status_changes = [j \in JobIds |-> <<>>]
  /\ pc = [p \in Procs |-> "idle"]
  /\ call = [p \in Procs |-> NoCall]
  /\ job = [p \in Procs |-> NoJob]
  /\ tx = [p \in Procs |-> NoTx]
  /\ currentStatus = [p \in Procs |-> "none"]
  /\ result = [p \in Procs |-> NoResult]
  /\ pre = [p \in Procs |-> NoPre]
  /\ everAssigned = {}

NextGaps ==
  \/ /\ Quiet
     /\ \/ \E j \in JobRows : AssignCall(1, j, 1)
        \/ \E j \in JobRows, s \in {"cancelled", "pending"} :
             UpdateStatusCall(1, j, s)
        \/ ScheduleCall(1, 1, Today)
  \/ AssignSteps(1)
  \/ s_query(1)

SpecGaps == InitGaps /\ [][NextGaps]_vars

\* Schedule changes next to assignJobToVehicle, one request at a time.
RescheduleSteps(p) ==
  \/ AssignSteps(p)
  \/ j_update(p)
  \/ p_check(p)

NextReschedule ==
  \/ /\ Quiet
     /\ \/ \E j \in JobRows, v \in VehicleRows : AssignCall(1, j, v)
        \/ \E j \in JobIds, w \in Schedules : UpdateJobCall(1, j, w)
        \/ \E j \in JobIds, w \in Schedules, b \in BOOLEAN :
             PutScheduleCall(1, j, w, b)
  \/ RescheduleSteps(1)

SpecReschedule == Init /\ [][NextReschedule]_vars

\* Two callers at once on the same job: assignJobToVehicle, unassignJob
\* and updateJobStatus, their steps interleaved in any order.
RacedJob == 1

JobRaceSteps(p) ==
  \/ AssignSteps(p)
  \/ n_getJob(p) \/ n_check(p) \/ n_delete(p) \/ n_commit(p)

NextJobRace ==
  \E p \in Procs :
    \/ \E v \in VehicleRows : AssignCall(p, RacedJob, v)
    \/ UnassignCall(p, RacedJob)
    \/ \E s \in {"in_progress", "cancelled"} :
         UpdateStatusCall(p, RacedJob, s)
    \/ JobRaceSteps(p)

\* The other job keeps the window of the first.
InitJobRace == Init /\ \A j \in JobRows : jobs[j] = NewJob(FirstSchedule)

SpecJobRace == InitJobRace /\ [][NextJobRace]_vars

\* ------------------------------------ JobAssignmentController.assignJob
\* The fixed text of the message each error is thrown with, as its phrases,
\* letter case kept.  A statement the store rejects carries the driver's
\* message and an error code that starts with ER_.
ErrorMessage(err) ==
  CASE err = "NotFound" -> <<"with ID", "not found">>
    [] err = "AssignmentNotAllowed" ->
         <<"Cannot assign job", "with status", "Job must be in">>
    [] err = "VehicleInactive" ->
         <<"Vehicle", "is currently inactive", "Please activate the vehicle">>
    [] err = "TimeConflict" ->
         <<"TIME CONFLICT DETECTED!", "is already scheduled during this time",
           "Conflicting jobs", "Suggestion:">>
    [] err = "InvalidWindow" ->
         <<"Failed to check vehicle availability:",
           "End time must be after start time">>
    [] err = "PastDate" ->
         <<"Failed to check vehicle availability:",
           "Cannot schedule jobs in the past">>
    [] err = "AssignmentNotFound" -> <<"Assignment with ID", "not found">>
    [] err = "InvalidTransition" ->
         <<"Invalid status transition:", "Cannot change from">>
    [] err = "MissingAssignment" ->
         <<"Cannot start job without a vehicle assignment">>
    [] err = "ValidationError" -> <<"Invalid status:">>
    [] OTHER -> <<>>

ErrorCode(err) == IF err = "StorageError" THEN "ER_" ELSE "undefined"

\* The catch block of the controller: the status code of its answer, chosen
\* by error.message.includes(...) and error.code; 201 on success.
AssignJobStatus(r) ==
  LET message == ErrorMessage(r.err)
  IN IF r.ok THEN 201
     ELSE IF \/ Includes(message, "not found")
             \/ Includes(message, "already assigned")
             \/ Includes(message, "Cannot assign job")
             \/ Includes(message, "is currently inactive") THEN 400
     ELSE IF Includes(message, "Time conflict") THEN 409
     ELSE IF ErrorCode(r.err) = "ER_" THEN 500
     ELSE 500

\* -------------------------------------------------- the connection pool
\* connectionLimit of mysql.createPool: 10 in the configuration; here as
\* many connections as the model has callers.
connectionLimit == Cardinality(Procs)

\* The connections a caller holds: the one assignJobToVehicle took with
\* db.getConnection() and releases in its finally block, and the one
\* updateJobStatus took, from its own getConnection to its release.
Held(p) ==
  (IF call[p].op = "assign" /\ pc[p] \notin {"idle", "done"} THEN 1 ELSE 0)
    + (IF pc[p] = "u_write" THEN 1 ELSE 0)

RECURSIVE InUse(_)
InUse(ps) ==
  IF ps = {} THEN 0
  ELSE LET q == CHOOSE x \in ps : TRUE IN Held(q) + InUse(ps \ {q})

\* The next step of a caller takes a connection from the pool: the
\* db.getConnection() of the two handlers, and every statement sent with
\* db.query (getJobById, getVehicleById, validateVehicle, the conflict
\* query, getAssignmentDetails).  validateInputs can throw before any query.
NeedsConnection(p) ==
  \/ pc[p] \in {"idle", "a_getJob", "a_getVehicle", "c_conflicts", "u_read",
               "a_details"}
  \/ /\ pc[p] = "c_vehicle"
     /\ validateInputs(call[p].vehicle_id, job[p].scheduled_date,
                       job[p].scheduled_time_start,
                       job[p].scheduled_time_end) = "ok"

\* waitForConnections: true, queueLimit: 0: a request for a connection
\* waits, without limit, until one is free.
Served(p) == NeedsConnection(p) => InUse(Procs) < connectionLimit

PoolCall(p) ==
  /\ Served(p)
  /\ \E j \in JobRows, v \in VehicleRows :
       /\ \A q \in Procs : call[q].op # "none" => call[q].job_id # j
       /\ AssignCall(p, j, v)

PoolSteps(p) == Served(p) /\ AssignSteps(p)

NextPool == \E p \in Procs : PoolCall(p) \/ PoolSteps(p)

\* Callers of assignJobToVehicle sharing the pool.  Every continuation that
\* can run is run by the event loop, and the store answers every statement
\* it was sent: a step that stays possible is taken.
SpecPool ==
  Init /\ [][NextPool]_vars /\ \A p \in Procs : WF_vars(PoolSteps(p))

\* ------------------------------------------------------------------ claims
\* A handler has finished and its caller holds the outcome.
Done(p) == pc[p] = "done"

\* The committed jobs, assignments and history are those of the call's start.
Unchanged(p) ==
  /\ jobs = pre[p].jobs
  /\ job_assignments = pre[p].job_assignments
  /\ job_status_changes = pre[p].job_status_changes

\* Two job rows on the same date whose [start,end) windows intersect.
WindowsOverlap(a, b) ==
  /\ a.scheduled_date = b.scheduled_date
  /\ a.scheduled_time_start < b.scheduled_time_end
  /\ b.scheduled_time_start < a.scheduled_time_end

DoubleBooked(a, b) ==
  /\ a.job_id # b.job_id
  /\ a.vehicle_id = b.vehicle_id
  /\ a.job_id \in DOMAIN jobs /\ b.job_id \in DOMAIN jobs
  /\ jobs[a.job_id].current_status \notin {"completed", "cancelled"}
  /\ jobs[b.job_id].current_status \notin {"completed", "cancelled"}
  /\ WindowsOverlap(jobs[a.job_id], jobs[b.job_id])

\* C1: between calls (every handler run to its end), no two assignment rows
\* of the same vehicle and date whose jobs are both neither completed nor
\* cancelled have overlapping windows.
C1_NoDoubleBooking ==
  Quiet => \A a \in job_assignments, b \in job_assignments : ~DoubleBooked(a, b)

\* C2: of two concurrent assignJobToVehicle calls for different jobs with
\* overlapping windows on the same vehicle and date, at most one commits
\* its assignment row.
C2_AtMostOneCommits ==
  ~ \E p \in Procs, q \in Procs :
      /\ p # q /\ Done(p) /\ Done(q)
      /\ call[p].op = "assign" /\ call[q].op = "assign"
      /\ result[p].ok /\ result[q].ok
      /\ \E a \in job_assignments, b \in job_assignments :
           /\ a.job_id = call[p].job_id /\ a.vehicle_id = call[p].vehicle_id
           /\ b.job_id = call[q].job_id /\ b.vehicle_id = call[q].vehicle_id
           /\ DoubleBooked(a, b)

\* The jobs that hold a row on vehicle v and are active and overlap job j's
\* window, j itself left out.
OverlappingJobs(j, v) ==
  {k \in DOMAIN jobs :
     /\ k # j
     /\ Binds(job_assignments, k, v)
     /\ jobs[k].current_status \notin {"completed", "cancelled"}
     /\ WindowsOverlap(jobs[j], jobs[k])}

\* C3: an assignment that ends in TimeConflict names exactly the conflicting
\* jobs (at least one) and leaves jobs, assignments and history as they were
\* before the call.
C3_ConflictChangesNothing ==
  \A p \in Procs :
    Done(p) /\ result[p].err = "TimeConflict" =>
      /\ ~result[p].ok
      /\ Unchanged(p)
      /\ result[p].conflicts # {}
      /\ result[p].conflicts = OverlappingJobs(call[p].job_id, call[p].vehicle_id)

C3_Witness ==
  \E p \in Procs :
    /\ Done(p) /\ result[p].err = "TimeConflict"
    /\ call[p].job_id = 2 /\ result[p].conflicts = {1}
    /\ jobs[2].current_status = "pending"

\* C4: an assignJobToVehicle or unassignJob call that fails at any step
\* leaves jobs, assignments and history as they were before the call.
C4_FailureChangesNothing ==
  \A p \in Procs :
    Done(p) /\ ~result[p].ok /\ call[p].op \in {"assign", "unassign"} =>
      Unchanged(p)

\* C5: a completed job keeps its status and its assignment rows in every
\* later step of every call.
C5_CompletedIsTerminal ==
  [][\A j \in DOMAIN jobs :
       jobs[j].current_status = "completed" =>
         /\ j \in DOMAIN jobs'
         /\ jobs'[j].current_status = "completed"
         /\ {r \in job_assignments' : r.job_id = j}
              = {r \in job_assignments : r.job_id = j}]_vars

\* Calls of each kind on a job that was completed when they started.
C5_Witness ==
  \E p \in Procs :
    /\ Done(p)
    /\ call[p].job_id \in DOMAIN pre[p].jobs
    /\ pre[p].jobs[call[p].job_id].current_status = "completed"
    /\ call[p].op = "unassign"
    /\ result[p].err = "CannotUnassign"

\* The transition table as the specification states it.
TransitionTable ==
  {<<"pending", "assigned">>, <<"pending", "cancelled">>,
   <<"assigned", "in_progress">>, <<"assigned", "cancelled">>,
   <<"assigned", "pending">>, <<"in_progress", "completed">>,
   <<"in_progress", "cancelled">>, <<"cancelled", "pending">>}

\* C6: every committed change of a job's status is a pair of the table, and
\* an updateJobStatus call with a target other than the current status
\* succeeds only for a pair of the table and ends in InvalidTransition for
\* every other pair.
C6_TransitionsFollowTable ==
  /\ [][\A j \in DOMAIN jobs :
          j \in DOMAIN jobs' /\ jobs'[j].current_status # jobs[j].current_status
            => <<jobs[j].current_status, jobs'[j].current_status>>
                 \in TransitionTable]_vars
  /\ [](\A p \in Procs :
          /\ Done(p) /\ call[p].op = "update"
          /\ call[p].newStatus \in validStatuses
          /\ call[p].job_id \in DOMAIN pre[p].jobs
          /\ pre[p].jobs[call[p].job_id].current_status # call[p].newStatus
          => LET pair == <<pre[p].jobs[call[p].job_id].current_status,
                           call[p].newStatus>>
             IN /\ result[p].ok => pair \in TransitionTable
                /\ pair \notin TransitionTable
                     => result[p].err = "InvalidTransition")

C6_Witness ==
  \E p \in Procs :
    /\ Done(p) /\ call[p].op = "update" /\ result[p].ok
    /\ call[p].job_id \in DOMAIN pre[p].jobs
    /\ pre[p].jobs[call[p].job_id].current_status = "cancelled"
    /\ jobs[call[p].job_id].current_status = "pending"

\* C7: updateJobStatus(job, in_progress) succeeds only if the job holds an
\* assignment row, and without one it fails with MissingAssignment and
\* leaves the job's status and history unchanged.
C7_StartNeedsAssignment ==
  \A p \in Procs :
    /\ Done(p) /\ call[p].op = "update" /\ call[p].newStatus = "in_progress"
    /\ call[p].job_id \in DOMAIN pre[p].jobs
    => LET held == {r \in pre[p].job_assignments : r.job_id = call[p].job_id}
       IN /\ result[p].ok => held # {}
          /\ held = {} => /\ result[p].err = "MissingAssignment"
                          /\ Unchanged(p)

\* C8: updateJobStatus with the job's current status as target succeeds and
\* changes neither the job, nor the assignments, nor the history.
C8_SameStatusIsNoOp ==
  \A p \in Procs :
    /\ Done(p) /\ call[p].op = "update"
    /\ call[p].job_id \in DOMAIN pre[p].jobs
    /\ pre[p].jobs[call[p].job_id].current_status = call[p].newStatus
    => result[p].ok /\ Unchanged(p)

C8_Witness ==
  \E p \in Procs :
    /\ Done(p) /\ call[p].op = "update" /\ result[p].ok
    /\ call[p].job_id \in DOMAIN pre[p].jobs
    /\ call[p].newStatus = "completed"
    /\ pre[p].jobs[call[p].job_id].current_status = "completed"
    /\ Records(JobIds) = MaxHistory

\* C9: every job has at most one committed assignment row.
C9_OneAssignmentPerJob ==
  \A j \in JobIds : Cardinality({r \in job_assignments : r.job_id = j}) <= 1

\* A finished reassignment of a job from one vehicle to another.
C9_Witness ==
  \E p \in Procs :
    /\ Done(p) /\ call[p].op = "assign" /\ result[p].ok
    /\ \E r \in pre[p].job_assignments :
         r.job_id = call[p].job_id /\ r.vehicle_id # call[p].vehicle_id
    /\ Binds(job_assignments, call[p].job_id, call[p].vehicle_id)

\* C10: assignJobToVehicle fails, with the error of the first check that
\* does not pass, and changes nothing when the job is missing, the job is
\* neither pending nor assigned, the vehicle is missing, or it is inactive.
C10_RejectedAssignChangesNothing ==
  \A p \in Procs :
    Done(p) /\ call[p].op = "assign" =>
      LET j == call[p].job_id
          v == call[p].vehicle_id
      IN IF j \notin DOMAIN pre[p].jobs
           THEN result[p].err = "NotFound" /\ Unchanged(p)
         ELSE IF pre[p].jobs[j].current_status \notin {"pending", "assigned"}
           THEN result[p].err = "AssignmentNotAllowed" /\ Unchanged(p)
         ELSE IF v \notin DOMAIN pre[p].vehicles
           THEN result[p].err = "NotFound" /\ Unchanged(p)
         ELSE IF ~pre[p].vehicles[v].is_active
           THEN result[p].err = "VehicleInactive" /\ Unchanged(p)
         ELSE TRUE

C10_Witness ==
  \E p \in Procs :
    /\ Done(p) /\ call[p].op = "assign"
    /\ result[p].err = "VehicleInactive"
    /\ job_assignments # {}

\* The job a call is about held an assignment row when the call started.
HeldBefore(p) == {r \in pre[p].job_assignments : r.job_id = call[p].job_id}

\* The status the job of a call had when the call started.
StatusBefore(p) == pre[p].jobs[call[p].job_id].current_status

\* The records the call appended to its job's history.
Appended(p) ==
  SubSeq(job_status_changes[call[p].job_id],
         Len(pre[p].job_status_changes[call[p].job_id]) + 1,
         Len(job_status_changes[call[p].job_id]))

\* C11: a successful assignJobToVehicle call leaves the job assigned, with
\* exactly one assignment row, on the requested vehicle, and has appended a
\* status change record, for a pending job and for an assigned one alike.
C11_SuccessfulAssignBindsAndRecords ==
  \A p \in Procs :
    Done(p) /\ call[p].op = "assign" /\ result[p].ok =>
      /\ jobs[call[p].job_id].current_status = "assigned"
      /\ Cardinality({r \in job_assignments : r.job_id = call[p].job_id}) = 1
      /\ Binds(job_assignments, call[p].job_id, call[p].vehicle_id)
      /\ Len(Appended(p)) = 1

\* C12: unassignJob on an existing job fails with NotAssigned when the job
\* holds no assignment row, and with CannotUnassign when it holds one and is
\* in_progress or completed; jobs, assignments and history are unchanged.
C12_RejectedUnassignChangesNothing ==
  \A p \in Procs :
    Done(p) /\ call[p].op = "unassign" /\ call[p].job_id \in DOMAIN pre[p].jobs =>
      /\ HeldBefore(p) = {} => result[p].err = "NotAssigned" /\ Unchanged(p)
      /\ HeldBefore(p) # {} /\ StatusBefore(p) \in {"in_progress", "completed"}
           => result[p].err = "CannotUnassign" /\ Unchanged(p)

C12_Witness ==
  \E p \in Procs :
    /\ Done(p) /\ call[p].op = "unassign"
    /\ call[p].job_id \in DOMAIN pre[p].jobs
    /\ HeldBefore(p) # {} /\ StatusBefore(p) = "in_progress"
    /\ result[p].err = "CannotUnassign"

\* C13: a successful unassignJob call leaves the job without assignment row
\* and pending, and has appended exactly one status change record, whose
\* new_status is pending.
C13_SuccessfulUnassignFreesAndRecords ==
  \A p \in Procs :
    Done(p) /\ call[p].op = "unassign" /\ result[p].ok =>
      /\ {r \in job_assignments : r.job_id = call[p].job_id} = {}
      /\ jobs[call[p].job_id].current_status = "pending"
      /\ Len(Appended(p)) = 1
      /\ Appended(p)[1].new_status = "pending"

\* The call record assignJobToVehicle(job, vehicle, notes) starts with.
AssignArguments(jobId, vehicleId, notes) ==
  [op |-> "assign", job_id |-> jobId, vehicle_id |-> vehicleId,
   newStatus |-> "assigned", notes |-> notes]

\* The first step of reassignJob fails as assignJobToVehicle's first step
\* does on the same tables, or leaves the tables alone and continues as the
\* call assignJobToVehicle(job, newVehicle, notes) just started.
ReassignContinuesAs(p, notes) ==
  pc[p] = "r_getJob" /\ pc'[p] # "r_getJob" =>
    /\ tables' = tables
    /\ pre'[p] = pre[p]
    /\ IF call[p].job_id \notin DOMAIN jobs
         THEN pc'[p] = "done" /\ result'[p].err = "NotFound"
       ELSE IF jobs[call[p].job_id].current_status \notin {"pending", "assigned"}
         THEN pc'[p] = "done" /\ result'[p].err = "AssignmentNotAllowed"
       ELSE /\ pc'[p] = "a_getJob"
            /\ call'[p] = AssignArguments(call[p].job_id, call[p].vehicle_id, notes)
            /\ tx'[p] = NoTx
            /\ result'[p] = NoResult

C15_NoSelfConflict ==
  \A p \in Procs :
    /\ Done(p) /\ call[p].op = "assign"
    /\ call[p].job_id \in DOMAIN pre[p].jobs
    /\ StatusBefore(p) = "assigned" /\ HeldBefore(p) # {}
    /\ call[p].vehicle_id \in DOMAIN pre[p].vehicles
    /\ pre[p].vehicles[call[p].vehicle_id].is_active
    /\ OverlappingJobs(call[p].job_id, call[p].vehicle_id) = {}
    => \/ result[p].ok
       \/ result[p].err \in {"StorageError", "AssignmentNotFound"}

\* An assigned job assigned again to the vehicle it is on.
C15_Witness ==
  \E p \in Procs :
    /\ Done(p) /\ call[p].op = "assign" /\ result[p].ok
    /\ call[p].job_id \in DOMAIN pre[p].jobs
    /\ StatusBefore(p) = "assigned"
    /\ Binds(HeldBefore(p), call[p].job_id, call[p].vehicle_id)

\* The active jobs on vehicle v whose window [s,e) on the requested date has
\* start < e and end > s, the excluded job (0: none) left out.
Overlapping(v, w, x) ==
  {k \in DOMAIN jobs :
     /\ k # x
     /\ Binds(job_assignments, k, v)
     /\ jobs[k].current_status \in {"pending", "assigned", "in_progress"}
     /\ jobs[k].scheduled_date = w.scheduled_date
     /\ w.scheduled_time_start < jobs[k].scheduled_time_end
     /\ w.scheduled_time_end > jobs[k].scheduled_time_start}

\* C16: for a well-formed window on an active vehicle, the availability
\* check returns exactly the active jobs on that vehicle and date whose
\* window [s,e) has start < e and end > s (windows that only touch are not
\* among them), and reports the vehicle available exactly when there is none.
C16_ConflictIffOverlap ==
  \A p \in Procs :
    /\ Done(p) /\ call[p].op = "check"
    /\ call[p].window.scheduled_time_start < call[p].window.scheduled_time_end
    /\ call[p].window.scheduled_date >= Today
    /\ call[p].vehicle_id \in DOMAIN vehicles
    /\ vehicles[call[p].vehicle_id].is_active
    => /\ result[p].conflicts
            = Overlapping(call[p].vehicle_id, call[p].window, call[p].job_id)
       /\ result[p].ok = (result[p].conflicts = {})

\* A window that starts when an active job on the vehicle ends is available.
C16_Witness ==
  \E p \in Procs :
    /\ Done(p) /\ call[p].op = "check" /\ result[p].ok
    /\ \E r \in job_assignments :
         /\ r.vehicle_id = call[p].vehicle_id
         /\ r.job_id # call[p].job_id
         /\ jobs[r.job_id].current_status = "assigned"
         /\ jobs[r.job_id].scheduled_date = call[p].window.scheduled_date
         /\ jobs[r.job_id].scheduled_time_end = call[p].window.scheduled_time_start

\* The other jobs that hold a row on the requested vehicle and overlap the
\* job of the call, whatever their status.
Blockers(p) ==
  {k \in DOMAIN pre[p].jobs :
     /\ k # call[p].job_id
     /\ Binds(pre[p].job_assignments, k, call[p].vehicle_id)
     /\ WindowsOverlap(pre[p].jobs[call[p].job_id], pre[p].jobs[k])}

\* C17: an assignment that passes the job and vehicle checks ends in
\* TimeConflict when an overlapping row on the vehicle belongs to a pending,
\* assigned or in_progress job, and never when every overlapping row belongs
\* to a completed or cancelled job.
C17_OnlyActiveJobsBlock ==
  \A p \in Procs :
    /\ Done(p) /\ call[p].op = "assign"
    /\ call[p].job_id \in DOMAIN pre[p].jobs
    /\ StatusBefore(p) \in {"pending", "assigned"}
    /\ call[p].vehicle_id \in DOMAIN pre[p].vehicles
    /\ pre[p].vehicles[call[p].vehicle_id].is_active
    /\ pre[p].jobs[call[p].job_id].scheduled_date >= Today
    => LET active == {k \in Blockers(p) :
                        pre[p].jobs[k].current_status
                          \in {"pending", "assigned", "in_progress"}}
       IN /\ active # {} => result[p].err = "TimeConflict"
          /\ active = {} => result[p].err # "TimeConflict"

\* A job assigned to a vehicle on which a completed job overlaps it.
C17_Witness ==
  \E p \in Procs :
    /\ Done(p) /\ call[p].op = "assign" /\ result[p].ok
    /\ call[p].job_id \in DOMAIN pre[p].jobs
    /\ \E k \in Blockers(p) : pre[p].jobs[k].current_status = "completed"

\* C18: updateJobStatus(job, pending) on an assigned job that holds an
\* assignment row is rejected and leaves the job assigned.
C18_PendingOnlyByUnassign ==
  \A p \in Procs :
    /\ Done(p) /\ call[p].op = "update" /\ call[p].newStatus = "pending"
    /\ call[p].job_id \in DOMAIN pre[p].jobs
    /\ StatusBefore(p) = "assigned" /\ HeldBefore(p) # {}
    => /\ ~result[p].ok
       /\ jobs[call[p].job_id].current_status = "assigned"

\* C19, as stated: every updateJobStatus call on a completed job, whatever
\* the target status, ends in InvalidTransition.
C19_CompletedRejectsEveryUpdate ==
  \A p \in Procs :
    /\ Done(p) /\ call[p].op = "update"
    /\ call[p].newStatus \in validStatuses
    /\ call[p].job_id \in DOMAIN pre[p].jobs
    /\ StatusBefore(p) = "completed"
    => result[p].err = "InvalidTransition"

\* C19, amended: an updateJobStatus call on a completed job ends in
\* InvalidTransition for every target status other than completed, and
\* succeeds for the target completed; in both cases nothing changes.
C19_CompletedRejectsEveryOtherTarget ==
  \A p \in Procs :
    /\ Done(p) /\ call[p].op = "update"
    /\ call[p].newStatus \in validStatuses
    /\ call[p].job_id \in DOMAIN pre[p].jobs
    /\ StatusBefore(p) = "completed"
    => /\ Unchanged(p)
       /\ IF call[p].newStatus = "completed" THEN result[p].ok
          ELSE result[p].err = "InvalidTransition"

C19_Witness ==
  \E p \in Procs :
    /\ Done(p) /\ call[p].op = "update" /\ call[p].newStatus = "cancelled"
    /\ call[p].job_id \in DOMAIN pre[p].jobs
    /\ StatusBefore(p) = "completed"
    /\ result[p].err = "InvalidTransition"

\* C20: updateJobStatus(job, in_progress) on a pending job without
\* assignment row ends in MissingAssignment.
C20_PendingStartIsMissingAssignment ==
  \A p \in Procs :
    /\ Done(p) /\ call[p].op = "update" /\ call[p].newStatus = "in_progress"
    /\ call[p].job_id \in DOMAIN pre[p].jobs
    /\ StatusBefore(p) = "pending" /\ HeldBefore(p) = {}
    => result[p].err = "MissingAssignment"

\* The records of a call's job when the call started.
HistoryBefore(p) == pre[p].job_status_changes[call[p].job_id]

\* C21: every successful updateJobStatus, assignJobToVehicle, unassignJob
\* or reassignJob call that changes its job's status appends exactly one
\* record to the job's history, with old_status the status before the call
\* and new_status the status after it; and a successful start of a job whose
\* history is the single record pending->assigned leaves exactly the records
\* pending->assigned, assigned->in_progress, in that order.
C21_OneRecordPerStatusChange ==
  \A p \in Procs :
    (/\ Done(p) /\ result[p].ok
     /\ call[p].op \in {"update", "assign", "unassign"}
     /\ call[p].job_id \in DOMAIN pre[p].jobs
     /\ call[p].job_id \in DOMAIN jobs)
    => LET j == call[p].job_id
           first == [old_status |-> "pending", new_status |-> "assigned"]
           second == [old_status |-> "assigned", new_status |-> "in_progress"]
       IN /\ (jobs[j].current_status # StatusBefore(p) =>
                job_status_changes[j] =
                  HistoryBefore(p) \o
                    << [old_status |-> StatusBefore(p),
                        new_status |-> jobs[j].current_status] >>)
          /\ ((/\ call[p].op = "update" /\ call[p].newStatus = "in_progress"
               /\ HistoryBefore(p) = <<first>>)
              => job_status_changes[j] = <<first, second>>)

\* A pending job was assigned and then started.
C21_Witness ==
  \E p \in Procs :
    /\ Done(p) /\ result[p].ok
    /\ call[p].op = "update" /\ call[p].newStatus = "in_progress"
    /\ call[p].job_id \in DOMAIN jobs
    /\ Binds(job_assignments, call[p].job_id, 1)
    /\ job_status_changes[call[p].job_id] =
         << [old_status |-> "pending", new_status |-> "assigned"],
            [old_status |-> "assigned", new_status |-> "in_progress"] >>

\* a is an initial part of b.
IsPrefix(a, b) == Len(a) <= Len(b) /\ SubSeq(b, 1, Len(a)) = a

\* C22: no step of updateJobStatus, assignJobToVehicle, unassignJob,
\* reassignJob or deleteJob changes or removes a committed status change
\* record: the records of every job before a step are an initial part of its
\* records after the step.
C22_HistoryIsAppendOnly ==
  [][\A j \in JobIds :
       IsPrefix(job_status_changes[j], job_status_changes'[j])]_vars

\* A job with two records was deleted, and the records are still there.
C22_Witness ==
  \E p \in Procs :
    /\ Done(p) /\ call[p].op = "delete" /\ result[p].ok
    /\ call[p].job_id \notin DOMAIN jobs
    /\ Len(HistoryBefore(p)) = 2
    /\ job_status_changes[call[p].job_id] = HistoryBefore(p)

WindowCheck(p) ==
  validateInputs(call[p].vehicle_id, call[p].window.scheduled_date,
                 call[p].window.scheduled_time_start,
                 call[p].window.scheduled_time_end)

\* C24: a conflict check with a well-formed window ends in the error
\* NotFound when the vehicle has no row and in the error VehicleUnavailable
\* when the vehicle is inactive.
C24_InvalidVehicleIsAnError ==
  \A p \in Procs :
    Done(p) /\ call[p].op = "check" /\ WindowCheck(p) = "ok" =>
      /\ call[p].vehicle_id \notin DOMAIN pre[p].vehicles
           => ~result[p].ok /\ result[p].err = "NotFound"
      /\ /\ call[p].vehicle_id \in DOMAIN pre[p].vehicles
         /\ ~pre[p].vehicles[call[p].vehicle_id].is_active
           => ~result[p].ok /\ result[p].err = "VehicleUnavailable"

\* A finished conflict check with a malformed or past window was refused
\* with the matching error, with no conflicts read and nothing changed.
BadWindowRefused(p) ==
  LET w == call[p].window
      malformed == w.scheduled_time_end <= w.scheduled_time_start
      past == w.scheduled_date < Today
      refused(e) == /\ ~result[p].ok /\ result[p].err = e
                    /\ result[p].conflicts = {} /\ Unchanged(p)
  IN /\ (malformed => refused("InvalidWindow"))
     /\ (~malformed /\ past => refused("PastDate"))

\* A finished assignment of a job scheduled before today failed and changed
\* nothing.
PastJobRefused(p) ==
  (/\ call[p].job_id \in DOMAIN pre[p].jobs
   /\ pre[p].jobs[call[p].job_id].scheduled_date < Today)
  => (~result[p].ok /\ Unchanged(p))

\* C25: a conflict check whose window ends at or before its start ends in
\* the error InvalidWindow, and one with a well-formed window on a day before
\* today in the error PastDate; either is thrown by the first step, before
\* the vehicle or any assignment row is read, and nothing is changed.  And
\* assignJobToVehicle of a job scheduled on a day before today fails and
\* leaves jobs, assignments and history as they were.
C25_BadWindowIsRejectedFirst ==
  /\ [](\A p \in Procs :
          /\ (Done(p) /\ call[p].op = "check" => BadWindowRefused(p))
          /\ (Done(p) /\ call[p].op = "assign" => PastJobRefused(p)))
  /\ [][\A p \in Procs :
          (pc[p] = "k_vehicle" /\ pc'[p] # "k_vehicle" /\ WindowCheck(p) # "ok")
            => (pc'[p] = "done" /\ ~result'[p].ok)]_vars

\* A past-dated job was refused on a vehicle that carries the same window on
\* another day.
C25_Witness ==
  \E p \in Procs :
    /\ Done(p) /\ call[p].op = "assign" /\ result[p].err = "PastDate"
    /\ pre[p].jobs[call[p].job_id].scheduled_date < Today
    /\ Binds(job_assignments, 1, call[p].vehicle_id)

\* A past-dated conflict check was refused.
C25_CheckRefused ==
  \E p \in Procs :
    /\ Done(p) /\ call[p].op = "check" /\ result[p].err = "PastDate"
    /\ job_assignments # {}

\* The handlers that only read.
ReadOnlyOps == {"check", "find", "schedule"}

\* C26: no step of checkVehicleAvailability, findAvailableVehicles or
\* getVehicleSchedule changes a job, a vehicle, an assignment row or a
\* status change record, whatever the answer or error the call ends with.
C26_QueriesChangeNothing ==
  [][\A p \in Procs :
       (call[p].op \in ReadOnlyOps /\ pc[p] # "idle" /\ pc'[p] # pc[p])
         => UNCHANGED tables]_vars

\* A conflict check found a conflict, among rows and records that are as
\* they were.
C26_Witness ==
  \E p \in Procs :
    /\ Done(p) /\ call[p].op = "check"
    /\ result[p].conflicts # {}
    /\ Unchanged(p) /\ vehicles = pre[p].vehicles
    /\ job_status_changes[1] # <<>>

\* The two queries answered with rows.
C26_QueriesAnswered ==
  \E p \in Procs :
    /\ Done(p) /\ call[p].op \in {"find", "schedule"}
    /\ result[p].rows = {1}

\* Every caller in flight holds a connection and waits for another one,
\* and the pool has none left.
PoolExhausted ==
  /\ InUse(Procs) = connectionLimit
  /\ \A p \in Procs : pc[p] \notin {"idle", "done"} /\ NeedsConnection(p)

\* C27: every assignJobToVehicle call that has started eventually finishes,
\* with every connection it took released, however many callers share the
\* pool.
C27_EveryCallFinishes ==
  \A p \in Procs :
    (pc[p] \notin {"idle", "done"}) ~> (pc[p] = "done" /\ Held(p) = 0)

\* What a reader of the committed tables sees of job j: assigned without
\* assignment row, and pending with an assignment row.
AssignedWithoutRow(j) ==
  jobs[j].current_status = "assigned" /\ AssignmentRows(j) = {}

PendingWithRow(j) ==
  jobs[j].current_status = "pending" /\ AssignmentRows(j) # {}

\* C28: while assignJobToVehicle runs on a pending job without row, the
\* committed tables never show the job assigned without its row; while
\* unassignJob runs on an assigned job with a row, they never show the job
\* pending with the row still there.
C28_RowAndStatusChangeTogether ==
  \A p \in Procs :
    (/\ pc[p] \notin {"idle", "done"}
     /\ call[p].job_id \in DOMAIN pre[p].jobs
     /\ call[p].job_id \in DOMAIN jobs)
    => /\ (/\ call[p].op = "assign"
           /\ StatusBefore(p) = "pending" /\ HeldBefore(p) = {})
          => ~AssignedWithoutRow(call[p].job_id)
       /\ (/\ call[p].op = "unassign"
           /\ StatusBefore(p) = "assigned" /\ HeldBefore(p) # {})
          => ~PendingWithRow(call[p].job_id)

\* C29: a job that has ever held a committed assignment row has a row in
\* jobs: deleteJob never removes it, whether or not it still holds the row.
C29_AssignedOnceNeverDeleted ==
  \A j \in everAssigned : j \in DOMAIN jobs

\* C30: the assign endpoint answers a time conflict with 409, a missing job
\* or vehicle, a job status that precludes assignment and an inactive
\* vehicle with 400, and a storage failure with 500.
C30_StatusByErrorKind ==
  \A p \in Procs :
    (Done(p) /\ call[p].op = "assign" /\ call[p].notes = NoNotes) =>
      /\ (result[p].err = "TimeConflict" => AssignJobStatus(result[p]) = 409)
      /\ (result[p].err \in {"NotFound", "AssignmentNotAllowed", "VehicleInactive"}
            => AssignJobStatus(result[p]) = 400)
      /\ (result[p].err = "StorageError" => AssignJobStatus(result[p]) = 500)

\* The elements of an array.
Elements(arr) == {arr[i] : i \in DOMAIN arr}

\* C31: getAllowedTransitions of a job answers exactly the statuses that the
\* transition table pairs with the job's status, each once, and none for a
\* completed job; and an updateJobStatus call with a target other than the
\* job's status succeeds only for a target in that list.
C31_AllowedTransitionsIsTheTableEntry ==
  \A p \in Procs :
    /\ (Done(p) /\ call[p].op = "allowed" /\ call[p].job_id \in DOMAIN jobs)
         => LET status == jobs[call[p].job_id].current_status
            IN /\ result[p].ok
               /\ Elements(result[p].rows) =
                    {t \in validStatuses : <<status, t>> \in TransitionTable}
               /\ Len(result[p].rows) = Cardinality(Elements(result[p].rows))
               /\ (status = "completed" => result[p].rows = <<>>)
    /\ (/\ Done(p) /\ call[p].op = "update" /\ result[p].ok
        /\ call[p].job_id \in DOMAIN pre[p].jobs
        /\ call[p].newStatus # StatusBefore(p))
         => Includes(AllowedStatuses(StatusBefore(p)), call[p].newStatus)

\* The list asked for a job in progress.
C31_Witness ==
  \E p \in Procs :
    /\ Done(p) /\ call[p].op = "allowed" /\ result[p].ok
    /\ jobs[call[p].job_id].current_status = "in_progress"
    /\ result[p].rows = <<"completed", "cancelled">>

\* C32: whenever no call is running, a job whose status is assigned or
\* in_progress has an assignment row and a pending job has none.
C32_StatusAgreesWithAssignment ==
  Quiet =>
    \A j \in DOMAIN jobs :
      /\ (jobs[j].current_status \in {"assigned", "in_progress"})
           => (AssignmentRows(j) # {})
      /\ (jobs[j].current_status = "pending") => (AssignmentRows(j) = {})

\* What validateJobWorkflow answers for the call of p in the committed
\* state of the call's start.
ValidBefore(p) ==
  /\ call[p].job_id \in DOMAIN pre[p].jobs
  /\ \A v \in JoinedVehicles(pre[p].job_assignments, call[p].job_id) :
       WorkflowErrors(StatusBefore(p), v, call[p].newStatus) = {}

\* C37: an updateJobStatus call that the store does not fail succeeds
\* exactly when validateJobWorkflow answers valid for the same job and
\* target in the state the call started in; and a finished
\* validateJobWorkflow call answers valid exactly when it has no error.
C37_ValidationAgreesWithUpdate ==
  \A p \in Procs :
    /\ (Done(p) /\ call[p].op = "update" /\ result[p].err # "StorageError")
         => (result[p].ok <=> ValidBefore(p))
    /\ (Done(p) /\ call[p].op = "validate")
         => (result[p].valid <=> ValidBefore(p))

\* The vehicle is active and no active job assigned to it overlaps the
\* window on its date.
AvailableNow(v, w) ==
  /\ validateVehicle(v) = "valid"
  /\ ConflictQuery(v, w.scheduled_date, w.scheduled_time_start,
                   w.scheduled_time_end, 0) = {}

\* C38: for a window from today on, findAvailableVehicles and
\* Vehicle.getAvailableVehicles return a vehicle exactly when it is active
\* and checkVehicleAvailability without an excluded job reports it
\* available, and that report is isAvailable = true exactly for an active
\* vehicle with no conflicting job.
C38_AvailableVehiclesAgreeWithCheck ==
  \A p \in Procs :
    /\ (Done(p) /\ call[p].op \in {"find", "available"}
                /\ call[p].window \in ValidWindows)
         => /\ result[p].ok
            /\ \A v \in VehicleIds :
                 (v \in result[p].rows) <=> AvailableNow(v, call[p].window)
    /\ (Done(p) /\ call[p].op = "check" /\ call[p].job_id = 0
                /\ call[p].window \in ValidWindows)
         => /\ result[p].err = "none"
            /\ result[p].ok <=> AvailableNow(call[p].vehicle_id, call[p].window)

\* Both queries answered with vehicle 2 only while vehicle 1 holds an
\* active job in the window asked about.
C38_Witness ==
  \E p \in Procs :
    /\ Done(p) /\ call[p].op \in {"find", "available"}
    /\ result[p].rows = {2}
    /\ vehicles[1].is_active
    /\ ~AvailableNow(1, call[p].window)

\* Two intervals of the day share an instant.
Meet(a, b) == a.start < b.end /\ b.start < a.end

Slot(j) ==
  Gap(jobs[j].scheduled_time_start, jobs[j].scheduled_time_end)

\* C39: the availableGaps getVehicleSchedule answers are pairwise disjoint,
\* none of them overlaps an occupied slot, gaps and slots together cover
\* the day, and without an occupied slot the one gap is the entire day.
C39_GapsPartitionTheFreeTime ==
  \A p \in Procs :
    (Done(p) /\ call[p].op = "schedule" /\ result[p].ok)
    => LET gaps == result[p].gaps
           slots == {Slot(j) : j \in result[p].rows}
       IN /\ \A i, k \in DOMAIN gaps : (i # k) => ~Meet(gaps[i], gaps[k])
          /\ \A i \in DOMAIN gaps : \A sl \in slots : ~Meet(gaps[i], sl)
          /\ \A t \in DayStart..(DayEnd - 1) :
               \/ \E i \in DOMAIN gaps : Meet(gaps[i], Gap(t, t + 1))
               \/ \E sl \in slots : Meet(sl, Gap(t, t + 1))
          /\ (slots = {}) => (gaps = <<Gap(DayStart, DayEnd)>>)

\* The jobs that, when the call of p started, held a row on a vehicle job
\* j was assigned to, were neither completed nor cancelled, and whose
\* window overlaps the window w.
OverlappedBefore(p, j, w) ==
  {k \in DOMAIN pre[p].jobs :
     /\ k # j
     /\ \E a, b \in pre[p].job_assignments :
          a.job_id = j /\ b.job_id = k /\ a.vehicle_id = b.vehicle_id
     /\ pre[p].jobs[k].current_status \notin {"completed", "cancelled"}
     /\ WindowsOverlap(w, pre[p].jobs[k])}

\* C36: a schedule change, through Job.updateJob or PUT /jobs/:id/schedule,
\* of a job that holds an assignment is refused and changes nothing when
\* the new window overlaps another active job assigned to the same vehicle.
C36_RescheduleChecksConflicts ==
  \A p \in Procs :
    (/\ Done(p) /\ call[p].op \in {"updateJob", "putSchedule"}
     /\ call[p].job_id \in DOMAIN pre[p].jobs
     /\ HeldBefore(p) # {}
     /\ OverlappedBefore(p, call[p].job_id, call[p].window) # {})
    => (~result[p].ok /\ Unchanged(p))

\* C33: the status change records of every job, in creation order, form a
\* chain: the first starts at pending, each later one starts where the one
\* before it ended, and the last ends at the job's current status, also
\* while calls on the same job run at once.
C33_HistoryIsAChain ==
  \A j \in DOMAIN jobs :
    LET h == job_status_changes[j]
    IN (Len(h) > 0)
       => /\ h[1].old_status = "pending"
          /\ \A i \in 2..Len(h) : h[i].old_status = h[i - 1].new_status
          /\ h[Len(h)].new_status = jobs[j].current_status

\* C34: of an updateJobStatus(job, in_progress) call and an unassignJob
\* call that run at once on an assigned job with its row, at most one
\* succeeds, and they do not leave the job in_progress without a row.
C34_StartAndUnassignExclude ==
  \A p, q \in Procs :
    (/\ Done(p) /\ call[p].op = "update" /\ call[p].newStatus = "in_progress"
     /\ Done(q) /\ call[q].op = "unassign"
     /\ call[p].job_id = call[q].job_id
     /\ call[p].job_id \in DOMAIN jobs
     /\ StatusBefore(p) = "assigned" /\ HeldBefore(p) # {}
     /\ StatusBefore(q) = "assigned" /\ HeldBefore(q) # {})
    => /\ ~(result[p].ok /\ result[q].ok)
       /\ ~(/\ jobs[call[p].job_id].current_status = "in_progress"
             /\ AssignmentRows(call[p].job_id) = {})

\* C35: when two assignJobToVehicle calls for the same job that ran at once
\* have both ended, the job has at most one assignment row.
C35_OneRowAfterAssignRace ==
  \A p, q \in Procs :
    (/\ p # q
     /\ Done(p) /\ call[p].op = "assign"
     /\ Done(q) /\ call[q].op = "assign"
     /\ call[p].job_id = call[q].job_id)
    => (AssignmentCount(call[p].job_id) <= 1)

====
